---- MODULE Spec2Model ----
(***************************************************************************)
(* exifRenamer.py: renames the media files of one directory after their    *)
(* capture instant.                                                        *)
(*                                                                         *)
(* Strings (file names, EXIF values) are sequences of character codes, so  *)
(* that splitting, formatting, parsing and sorting are computed the way    *)
(* the program computes them.  Every path of a run lies in the one input   *)
(* directory, so a path is modelled by its file name: join(args.input, _)  *)
(* and split(_) add and remove the same prefix.                            *)
(*                                                                         *)
(* An instant (datetime) is a number of ticks since the start of an hour;  *)
(* a second has TicksPerSecond ticks.  EXIF instants are whole seconds,    *)
(* filesystem instants may carry a fraction.  All modelled instants lie in *)
(* one hour, so of '%Y-%m-%d %H:%M:%S' only the '%M:%S' part varies and    *)
(* only that part is written out.                                          *)
(***************************************************************************)
EXTENDS Integers, Sequences, FiniteSets, TLC

VARIABLES
    pc,               \* position in main()
    platform,         \* platform.system()
    disk,             \* the input directory: file name -> file
    images_files,     \* main: list of image paths
    video_files,      \* main: list of video paths
    images_info_map,  \* main: dict path -> datetime, as <<path, time>> in insertion order
    video_files_map,  \* main: dict path -> datetime
    file_counter,     \* main / rename_files: loop counter
    renamings,        \* calculate_renamings: its dict time -> (file, flag) at return
    image_renamings,  \* main: plan of the images, then the reporter's ordered mapping
    video_renamings,  \* main: plan of the videos, then the reporter's ordered mapping
    stdout,           \* lines written by dump_renamings
    confirmed,        \* answer of ask_yesno: "unasked", "yes", "no"
    renames,          \* os.rename calls issued so far, <<original, renamed>>
    error             \* the exception that ended the run, "" if none

vars == <<pc, platform, disk, images_files, video_files, images_info_map,
          video_files_map, file_counter, renamings, image_renamings,
          video_renamings, stdout, confirmed, renames, error>>

(***************************************************************************)
(* Bounds of the model.                                                    *)
(***************************************************************************)
TicksPerSecond == 2   \* resolution of an instant below the second
MaxTick == 3          \* latest capture instant fed to the planner, in ticks
MaxFiles == 4         \* files in one directory / one planner input

(***************************************************************************)
(* Strings.                                                                *)
(***************************************************************************)
EXIF_DATE_TIME_ORIGINAL == "EXIF DateTimeOriginal"

\* '.jpg', '.jpeg'
image_extensions == << <<46, 106, 112, 103>>, <<46, 106, 112, 101, 103>> >>

\* '.mp4', '.mov', '.avi'
video_extensions ==
    << <<46, 109, 112, 52>>, <<46, 109, 111, 118>>, <<46, 97, 118, 105>> >>

\* str.lower() on ASCII
Lower(s) == [i \in 1..Len(s) |-> IF s[i] \in 65..90 THEN s[i] + 32 ELSE s[i]]

\* str.endswith
EndsWith(s, e) ==
    /\ Len(s) >= Len(e)
    /\ SubSeq(s, Len(s) - Len(e) + 1, Len(s)) = e

has_extension(file, extensions) ==
    \E i \in 1..Len(extensions) : EndsWith(Lower(file), extensions[i])

is_image(file) == has_extension(file, image_extensions)

is_video(file) == has_extension(file, video_extensions)

\* splitext(file_name)[1]: from the last dot on, unless only dots precede it
SplitExt(file_name) ==
    LET dots == {i \in 1..Len(file_name) : file_name[i] = 46}
        last == CHOOSE d \in dots : \A e \in dots : e <= d
    IN  IF dots = {} THEN <<>>
        ELSE IF \E j \in 1..(last - 1) : file_name[j] # 46
             THEN SubSeq(file_name, last, Len(file_name))
             ELSE <<>>

\* Python's order on str: lexicographic by code point
StrLess(a, b) ==
    \E k \in 1..(Len(b)) :
        /\ k <= Len(a) + 1
        /\ \A j \in 1..(k - 1) : a[j] = b[j]
        /\ (k = Len(a) + 1 \/ a[k] < b[k])

StrLeq(a, b) == a = b \/ StrLess(a, b)

(***************************************************************************)
(* Instants: formatting and parsing.                                       *)
(***************************************************************************)
\* two decimal digits, zero padded
TwoDigits(n) == <<48 + (n \div 10), 48 + (n % 10)>>

\* target_datetime.strftime('%Y-%m-%d %H:%M:%S'): the fraction of a second is dropped
Strftime(time) ==
    LET seconds == time \div TicksPerSecond
    IN  TwoDigits((seconds \div 60) % 60) \o <<58>> \o TwoDigits(seconds % 60)

IsDigit(c) == c \in 48..57

\* datetime.strptime(date_time, '%Y:%m:%d %H:%M:%S') does not raise ValueError
\* (two-digit fields only: the modelled EXIF values have no one-digit fields)
Parseable(date_time) ==
    /\ Len(date_time) = 5
    /\ \A i \in {1, 2, 4, 5} : IsDigit(date_time[i])
    /\ date_time[3] = 58
    /\ date_time[1] - 48 <= 5
    /\ date_time[4] - 48 <= 5

\* datetime.strptime(date_time, '%Y:%m:%d %H:%M:%S'): a whole second
Strptime(date_time) ==
    LET minute == (date_time[1] - 48) * 10 + (date_time[2] - 48)
        second == (date_time[4] - 48) * 10 + (date_time[5] - 48)
    IN  (minute * 60 + second) * TicksPerSecond

\* timedelta(seconds=1)
OneSecond == TicksPerSecond

(***************************************************************************)
(* Timestamp resolver.                                                     *)
(***************************************************************************)
None == -1

Platforms == {"Windows", "Darwin", "Linux"}

\* os.stat results of Darwin carry st_birthtime, those of Linux do not
HasBirthtime(system) == system = "Darwin"

\* creation_time(file)
creation_time(system, f) ==
    IF system = "Windows"
    THEN f.created
    ELSE IF HasBirthtime(system) THEN f.created ELSE f.modified

\* a resolver that takes every field as well formed
exif_never_raises(f) == FALSE

\* exif_creation_time(file) raises ValueError
exif_raises(f) ==
    /\ EXIF_DATE_TIME_ORIGINAL \in DOMAIN f.tags
    /\ ~Parseable(f.tags[EXIF_DATE_TIME_ORIGINAL])

\* exif_creation_time(file), when it returns
exif_creation_time(f) ==
    IF EXIF_DATE_TIME_ORIGINAL \notin DOMAIN f.tags
    THEN None
    ELSE Strptime(f.tags[EXIF_DATE_TIME_ORIGINAL])

\* exif_time_else_creation_time(file), when it returns
exif_time_else_creation_time(system, f) ==
    LET exif_info == exif_creation_time(f)
    IN  IF exif_info = None THEN creation_time(system, f) ELSE exif_info

(***************************************************************************)
(* Collision-resolving renamer.                                            *)
(***************************************************************************)
\* renamed_file_name(file, target_datetime)
renamed_file_name(file, target_datetime) ==
    Strftime(target_datetime) \o SplitExt(file)

\* a planner that processes the files in insertion order
Unsorted(items) == items

\* sorted(file_to_time_map.items(), key=lambda p: p[1]): stable
RECURSIVE SortedByTime(_)
SortedByTime(items) ==
    IF items = <<>> THEN <<>>
    ELSE LET front == SortedByTime(SubSeq(items, 1, Len(items) - 1))
             e == items[Len(items)]
             k == Cardinality({i \in 1..Len(front) : front[i][2] <= e[2]})
         IN  SubSeq(front, 1, k) \o <<e>> \o SubSeq(front, k + 1, Len(front))

\* the keys of the dict renamings
Keys(r) == {r[i].time : i \in 1..Len(r)}

\* a planner that takes two instants of one second for a collision
FreeTimeBySecond(time, r) ==
    LET taken == {r[i].time \div TicksPerSecond : i \in 1..Len(r)}
        k == CHOOSE n \in 0..Len(r) :
                 /\ (time + n * OneSecond) \div TicksPerSecond \notin taken
                 /\ \A m \in 0..(n - 1) :
                        (time + m * OneSecond) \div TicksPerSecond \in taken
    IN  time + k * OneSecond

\* the while loop: the first instant from time on, in steps of one second,
\* that is no key of renamings
RECURSIVE FreeTime(_, _)
FreeTime(time, r) ==
    IF time \in Keys(r) THEN FreeTime(time + OneSecond, r) ELSE time

\* a flag that is set only from the second collision on
StrategyAppliedLate(time, original_time) == time > original_time + OneSecond

\* time != original_time
StrategyApplied(time, original_time) == time # original_time

\* the for loop over sorted_info: renamings at its end, in insertion order
RECURSIVE AssignTimes(_)
AssignTimes(sorted_info) ==
    IF sorted_info = <<>> THEN <<>>
    ELSE LET r == AssignTimes(SubSeq(sorted_info, 1, Len(sorted_info) - 1))
             entry == sorted_info[Len(sorted_info)]
             time == FreeTime(entry[2], r)
         IN  Append(r, [time |-> time, file |-> entry[1],
                        flag |-> StrategyApplied(time, entry[2])])

\* the second loop: result, a dict file -> (renamed_file, strategy_applied)
BuildResult(r) ==
    [i \in 1..Len(r) |->
        <<r[i].file, <<renamed_file_name(r[i].file, r[i].time), r[i].flag>> >>]

\* calculate_renamings(file_to_time_map)
calculate_renamings(file_to_time_map) ==
    BuildResult(AssignTimes(SortedByTime(file_to_time_map)))

(***************************************************************************)
(* Renaming plan reporter.                                                 *)
(***************************************************************************)
\* sorted(renamings_map.items(), key=lambda p: p[1][0]): stable
RECURSIVE SortedByName(_)
SortedByName(items) ==
    IF items = <<>> THEN <<>>
    ELSE LET front == SortedByName(SubSeq(items, 1, Len(items) - 1))
             e == items[Len(items)]
             k == Cardinality({i \in 1..Len(front) :
                                   StrLeq(front[i][2][1], e[2][1])})
         IN  SubSeq(front, 1, k) \o <<e>> \o SubSeq(front, k + 1, Len(front))

\* a reporter that keeps the order of the plan
dump_unsorted(renamings_map) ==
    [i \in 1..Len(renamings_map) |->
        <<renamings_map[i][1], renamings_map[i][2][1]>>]

\* dump_renamings(renamings_map): the returned OrderedDict original -> renamed
dump_renamings(renamings_map) ==
    LET s == SortedByName(renamings_map)
    IN  [i \in 1..Len(s) |-> <<s[i][1], s[i][2][1]>>]

\* the lines dump_renamings writes: original, renamed, highlighted or not
dump_lines(renamings_map) ==
    LET s == SortedByName(renamings_map)
    IN  [i \in 1..Len(s) |-> <<s[i][1], s[i][2][1], s[i][2][2]>>]

(***************************************************************************)
(* The filesystem.                                                         *)
(***************************************************************************)
\* tags of a file without the capture-time field
NoTags == [t \in {} |-> <<>>]

\* tags of a file whose capture-time field prints as printable
WithTag(printable) == [t \in {EXIF_DATE_TIME_ORIGINAL} |-> printable]

\* EXIF values of the directory's images: '00:00' (valid), '00:61' (malformed)
ExifValues == {<<48, 48, 58, 48, 48>>, <<48, 48, 58, 54, 49>>}

\* 'a.jpg', '00:00.jpg' (already named after an instant), 'a.MP4', 'n.txt'
DirNames ==
    { <<97, 46, 106, 112, 103>>,
      <<48, 48, 58, 48, 48, 46, 106, 112, 103>>,
      <<97, 46, 77, 80, 52>>,
      <<110, 46, 116, 120, 116>> }

\* filesystem times of the directory's files
DirTimes == {0, OneSecond}

\* what the run reads of a file besides its name
Metas ==
    [tags : {NoTags} \cup {WithTag(v) : v \in ExifValues},
     created : DirTimes, modified : DirTimes]

\* all orders of a finite set
Orders(S) ==
    {s \in [1..Cardinality(S) -> S] :
        \A i, j \in 1..Cardinality(S) : s[i] = s[j] => i = j}

\* os.rename(original, renamed) raises
rename_error(system, d, original, renamed) ==
    IF original \notin DOMAIN d THEN "FileNotFoundError"
    ELSE IF original # renamed /\ renamed \in DOMAIN d /\ system = "Windows"
         THEN "FileExistsError"
         ELSE ""

\* the directory after os.rename(original, renamed) returned: an existing
\* target is replaced without notice
rename(d, original, renamed) ==
    [n \in (DOMAIN d \ {original}) \cup {renamed} |->
        IF n = renamed THEN d[original] ELSE d[n]]

(***************************************************************************)
(* main()                                                                  *)
(***************************************************************************)
Init ==
    /\ pc = "list"
    /\ platform \in Platforms
    /\ \E S \in SUBSET DirNames :
         /\ Cardinality(S) <= MaxFiles
         /\ \E m \in [S -> Metas] :
              /\ \A n \in S : is_image(n) \/ m[n].tags = NoTags
              /\ disk = [n \in S |->
                            [content |-> n, tags |-> m[n].tags,
                             created |-> m[n].created,
                             modified |-> m[n].modified]]
    /\ images_files = <<>>
    /\ video_files = <<>>
    /\ images_info_map = <<>>
    /\ video_files_map = <<>>
    /\ file_counter = 0
    /\ renamings = <<>>
    /\ image_renamings = <<>>
    /\ video_renamings = <<>>
    /\ stdout = <<>>
    /\ confirmed = "unasked"
    /\ renames = <<>>
    /\ error = ""

\* lines 218-221: listdir in the order the filesystem gives, then the two filters
ListFiles ==
    /\ pc = "list"
    /\ \E files \in Orders(DOMAIN disk) :
         /\ images_files' = SelectSeq(files, is_image)
         /\ video_files' = SelectSeq(files, is_video)
    /\ pc' = "extract_images"
    /\ UNCHANGED <<platform, disk, images_info_map, video_files_map,
                   file_counter, renamings, image_renamings, video_renamings,
                   stdout, confirmed, renames, error>>

\* lines 238-241: one iteration of the loop over images_files
ExtractImage ==
    /\ pc = "extract_images"
    /\ Len(images_info_map) < Len(images_files)
    /\ LET file == images_files[Len(images_info_map) + 1]
       IN  IF exif_raises(disk[file])
           THEN /\ pc' = "error"
                /\ error' = "ValueError"
                /\ UNCHANGED images_info_map
           ELSE /\ images_info_map' =
                      Append(images_info_map,
                             <<file, exif_time_else_creation_time(platform, disk[file])>>)
                /\ UNCHANGED <<pc, error>>
    /\ file_counter' = file_counter + 1
    /\ UNCHANGED <<platform, disk, images_files, video_files, video_files_map,
                   renamings, image_renamings, video_renamings, stdout,
                   confirmed, renames>>

\* line 243: the loop over images_files is over
ExtractImagesDone ==
    /\ pc = "extract_images"
    /\ Len(images_info_map) = Len(images_files)
    /\ pc' = "extract_videos"
    /\ UNCHANGED <<platform, disk, images_files, video_files, images_info_map,
                   video_files_map, file_counter, renamings, image_renamings,
                   video_renamings, stdout, confirmed, renames, error>>

\* lines 245-248: one iteration of the loop over video_files
ExtractVideo ==
    /\ pc = "extract_videos"
    /\ Len(video_files_map) < Len(video_files)
    /\ LET file == video_files[Len(video_files_map) + 1]
       IN  video_files_map' =
               Append(video_files_map, <<file, creation_time(platform, disk[file])>>)
    /\ file_counter' = file_counter + 1
    /\ UNCHANGED <<pc, platform, disk, images_files, video_files,
                   images_info_map, renamings, image_renamings,
                   video_renamings, stdout, confirmed, renames, error>>

\* line 250: the loop over video_files is over
ExtractVideosDone ==
    /\ pc = "extract_videos"
    /\ Len(video_files_map) = Len(video_files)
    /\ pc' = "calc_images"
    /\ UNCHANGED <<platform, disk, images_files, video_files, images_info_map,
                   video_files_map, file_counter, renamings, image_renamings,
                   video_renamings, stdout, confirmed, renames, error>>

\* line 252
CalculateImages ==
    /\ pc = "calc_images"
    /\ renamings' = AssignTimes(SortedByTime(images_info_map))
    /\ image_renamings' = calculate_renamings(images_info_map)
    /\ pc' = "calc_videos"
    /\ UNCHANGED <<platform, disk, images_files, video_files, images_info_map,
                   video_files_map, file_counter, video_renamings, stdout,
                   confirmed, renames, error>>

\* line 253
CalculateVideos ==
    /\ pc = "calc_videos"
    /\ renamings' = AssignTimes(SortedByTime(video_files_map))
    /\ video_renamings' = calculate_renamings(video_files_map)
    /\ pc' = "dump_images"
    /\ UNCHANGED <<platform, disk, images_files, video_files, images_info_map,
                   video_files_map, file_counter, image_renamings, stdout,
                   confirmed, renames, error>>

\* line 255
DumpImages ==
    /\ pc = "dump_images"
    /\ image_renamings' = dump_renamings(image_renamings)
    /\ stdout' = stdout \o dump_lines(image_renamings)
    /\ pc' = "dump_videos"
    /\ UNCHANGED <<platform, disk, images_files, video_files, images_info_map,
                   video_files_map, file_counter, renamings, video_renamings,
                   confirmed, renames, error>>

\* line 256
DumpVideos ==
    /\ pc = "dump_videos"
    /\ video_renamings' = dump_renamings(video_renamings)
    /\ stdout' = stdout \o dump_lines(video_renamings)
    /\ pc' = "ask"
    /\ UNCHANGED <<platform, disk, images_files, video_files, images_info_map,
                   video_files_map, file_counter, renamings, image_renamings,
                   confirmed, renames, error>>

\* a prompt whose answer is not looked at
AskIgnored ==
    /\ pc = "ask"
    /\ \E answer \in {"yes", "no"} : confirmed' = answer
    /\ pc' = "rename_images"
    /\ file_counter' = 0
    /\ UNCHANGED <<platform, disk, images_files, video_files, images_info_map,
                   video_files_map, renamings, image_renamings,
                   video_renamings, stdout, renames, error>>

\* line 258: ask_yesno; on yes, rename_files starts with file_counter = 0
AskYesNo ==
    /\ pc = "ask"
    /\ \E answer \in {"yes", "no"} :
         /\ confirmed' = answer
         /\ pc' = IF answer = "yes" THEN "rename_images" ELSE "done"
    /\ file_counter' = 0
    /\ UNCHANGED <<platform, disk, images_files, video_files, images_info_map,
                   video_files_map, renamings, image_renamings,
                   video_renamings, stdout, renames, error>>

\* lines 193-196: one iteration of the loop of rename_files over renamings_map
RenameOne(renamings_map) ==
    /\ file_counter < Len(renamings_map)
    /\ LET original == renamings_map[file_counter + 1][1]
           renamed == renamings_map[file_counter + 1][2]
           raised == rename_error(platform, disk, original, renamed)
       IN  /\ renames' = Append(renames, <<original, renamed>>)
           /\ IF raised # ""
              THEN /\ pc' = "error"
                   /\ error' = raised
                   /\ UNCHANGED disk
              ELSE /\ disk' = rename(disk, original, renamed)
                   /\ UNCHANGED <<pc, error>>
    /\ file_counter' = file_counter + 1
    /\ UNCHANGED <<platform, images_files, video_files, images_info_map,
                   video_files_map, renamings, image_renamings,
                   video_renamings, stdout, confirmed>>

\* line 259, in the loop
RenameImage ==
    /\ pc = "rename_images"
    /\ RenameOne(image_renamings)

\* lines 198 and 260: the image renamings are done, rename_files starts again
RenameImagesDone ==
    /\ pc = "rename_images"
    /\ file_counter = Len(image_renamings)
    /\ pc' = "rename_videos"
    /\ file_counter' = 0
    /\ UNCHANGED <<platform, disk, images_files, video_files, images_info_map,
                   video_files_map, renamings, image_renamings,
                   video_renamings, stdout, confirmed, renames, error>>

\* line 260, in the loop
RenameVideo ==
    /\ pc = "rename_videos"
    /\ RenameOne(video_renamings)

\* line 198: the video renamings are done, main returns
RenameVideosDone ==
    /\ pc = "rename_videos"
    /\ file_counter = Len(video_renamings)
    /\ pc' = "done"
    /\ UNCHANGED <<platform, disk, images_files, video_files, images_info_map,
                   video_files_map, file_counter, renamings, image_renamings,
                   video_renamings, stdout, confirmed, renames, error>>

\* lines 264-267: KeyboardInterrupt, raised anywhere in main, ends the run
Interrupt ==
    /\ pc \notin {"done", "error", "interrupted"}
    /\ pc' = "interrupted"
    /\ UNCHANGED <<platform, disk, images_files, video_files, images_info_map,
                   video_files_map, file_counter, renamings, image_renamings,
                   video_renamings, stdout, confirmed, renames, error>>

Next ==
    \/ ListFiles
    \/ ExtractImage
    \/ ExtractImagesDone
    \/ ExtractVideo
    \/ ExtractVideosDone
    \/ CalculateImages
    \/ CalculateVideos
    \/ DumpImages
    \/ DumpVideos
    \/ AskYesNo
    \/ RenameImage
    \/ RenameImagesDone
    \/ RenameVideo
    \/ RenameVideosDone
    \/ Interrupt

Spec == Init /\ [][Next]_vars

(***************************************************************************)
(* The planner and the reporter on any input mapping: main from line 252   *)
(* to line 256, started with any two mappings.                             *)
(***************************************************************************)
\* 'a.jpg', 'b.JPG', 'c.jpg', '00:00.jpg'
PlanImages ==
    { <<97, 46, 106, 112, 103>>,
      <<98, 46, 74, 80, 71>>,
      <<99, 46, 106, 112, 103>>,
      <<48, 48, 58, 48, 48, 46, 106, 112, 103>> }

\* 'a.mp4'
PlanVideos == { <<97, 46, 109, 112, 52>> }

\* the dicts over the files of S, in every insertion order, with instants up to MaxTick
Mappings(S) ==
    UNION {{[i \in 1..Len(o) |-> <<o[i], t[i]>>] :
               t \in [1..Len(o) -> 0..MaxTick]} : o \in Orders(S)}

InitPlan ==
    /\ pc = "calc_images"
    /\ platform = "Windows"
    /\ \E I \in SUBSET PlanImages, V \in SUBSET PlanVideos :
         /\ Cardinality(I) + Cardinality(V) <= MaxFiles
         /\ images_info_map \in Mappings(I)
         /\ video_files_map \in Mappings(V)
    /\ images_files = [i \in 1..Len(images_info_map) |-> images_info_map[i][1]]
    /\ video_files = [i \in 1..Len(video_files_map) |-> video_files_map[i][1]]
    /\ disk = [n \in {images_info_map[i][1] : i \in 1..Len(images_info_map)}
                     \cup {video_files_map[i][1] : i \in 1..Len(video_files_map)} |->
                 LET time == IF is_image(n)
                             THEN (CHOOSE e \in {images_info_map[i] : i \in 1..Len(images_info_map)} : e[1] = n)[2]
                             ELSE (CHOOSE e \in {video_files_map[i] : i \in 1..Len(video_files_map)} : e[1] = n)[2]
                 IN  [content |-> n, tags |-> NoTags, created |-> time,
                      modified |-> time]]
    /\ file_counter = Len(images_info_map) + Len(video_files_map)
    /\ renamings = <<>>
    /\ image_renamings = <<>>
    /\ video_renamings = <<>>
    /\ stdout = <<>>
    /\ confirmed = "unasked"
    /\ renames = <<>>
    /\ error = ""

NextPlan ==
    \/ CalculateImages
    \/ CalculateVideos
    \/ DumpImages
    \/ DumpVideos

SpecPlan == InitPlan /\ [][NextPlan]_vars

(***************************************************************************)
(* Properties.                                                             *)
(***************************************************************************)
\* calculate_renamings has just returned (line 252 or line 253)
Planned == pc \in {"calc_videos", "dump_images"}

\* the mapping that call was given
file_to_time_map ==
    IF pc = "calc_videos" THEN images_info_map ELSE video_files_map

\* the plan that call returned
result == IF pc = "calc_videos" THEN image_renamings ELSE video_renamings

\* the capture instant the mapping m gives to file
OriginalTime(m, file) ==
    m[CHOOSE i \in 1..Len(m) : m[i][1] = file][2]

\* the entries of a dict, whatever their order
Items(d) == {d[i] : i \in 1..Len(d)}

\* the mapping m inserted in the order o
Reordered(m, o) == [i \in 1..Len(m) |-> m[o[i]]]

\* C1: the plan has exactly one entry per input file and its target names
\* are pairwise distinct.
C1_UniqueTargets ==
    Planned =>
        /\ Len(result) = Len(file_to_time_map)
        /\ {result[i][1] : i \in 1..Len(result)}
               = {file_to_time_map[i][1] : i \in 1..Len(file_to_time_map)}
        /\ \A i, j \in 1..Len(result) :
               i # j => result[i][2][1] # result[j][2][1]

\* C2: every insertion order of the same input mapping yields the same plan:
\* the same target name and the same collision flag for every file.
C2_OrderIndependent ==
    Planned =>
        \A o \in Orders(1..Len(file_to_time_map)) :
            Items(calculate_renamings(Reordered(file_to_time_map, o)))
                = Items(result)

\* C3: no file is assigned an instant earlier than its capture instant, and
\* its collision flag is true exactly when the assigned instant differs from
\* (is later than) the capture instant.
C3_ForwardOnlyFlag ==
    Planned =>
        /\ Len(renamings) = Len(file_to_time_map)
        /\ Len(result) = Len(renamings)
        /\ \A i \in 1..Len(renamings) :
               LET original == OriginalTime(file_to_time_map, renamings[i].file)
               IN  /\ renamings[i].time >= original
                   /\ result[i][1] = renamings[i].file
                   /\ result[i][2][2] = (renamings[i].time > original)
                   /\ result[i][2][2] = (renamings[i].time # original)

\* C3 happens: one file kept its instant, another was moved
C3_Witness ==
    /\ Planned
    /\ \E i, j \in 1..Len(result) : result[i][2][2] /\ ~result[j][2][2]

\* the capture instants of the mapping m are pairwise distinct
DistinctInstants(m) ==
    \A i, j \in 1..Len(m) : i # j => m[i][2] # m[j][2]

Group(t) ==
    {i \in 1..Len(renamings) :
        OriginalTime(file_to_time_map, renamings[i].file) = t}

\* the rank of place i within the set of places G, from 0
Rank(G, i) == Cardinality({j \in G : j < i})

\* the files with a capture instant before t that were moved onto t or onto
\* a whole number of seconds after t
MovedOnto(t) ==
    {i \in 1..Len(renamings) :
        /\ OriginalTime(file_to_time_map, renamings[i].file) < t
        /\ renamings[i].time >= t
        /\ (renamings[i].time - t) % OneSecond = 0}

\* C8: the N files that share the capture instant t are assigned
\* t, t+1s, ..., t+(N-1)s in processing order.
C8_ConsecutiveFromOriginal ==
    Planned =>
        \A e \in Items(file_to_time_map) :
            \A i \in Group(e[2]) :
                renamings[i].time = e[2] + Rank(Group(e[2]), i) * OneSecond

\* C8 as amended: the N files that share the capture instant t are assigned
\* N consecutive seconds in processing order, starting at t+k s, where k is
\* the number of files with an earlier capture instant that were moved onto
\* t or onto whole seconds after t; they start at t itself when k = 0.
C8_ConsecutiveFromFirstFree ==
    Planned =>
        \A e \in Items(file_to_time_map) :
            \A i \in Group(e[2]) :
                renamings[i].time =
                    e[2] + (Cardinality(MovedOnto(e[2]))
                            + Rank(Group(e[2]), i)) * OneSecond

\* C8 happens: two files share an instant that an earlier file was moved onto
C8_Witness ==
    /\ Planned
    /\ \E e \in Items(file_to_time_map) :
           /\ Cardinality(Group(e[2])) >= 2
           /\ MovedOnto(e[2]) # {}

\* C9: the assigned instants are strictly increasing in processing order, so
\* a file captured before another is assigned an earlier instant than it.
C9_OrderPreserved ==
    Planned =>
        /\ \A i, j \in 1..Len(renamings) :
               i < j => renamings[i].time < renamings[j].time
        /\ \A i, j \in 1..Len(renamings) :
               OriginalTime(file_to_time_map, renamings[i].file)
                     < OriginalTime(file_to_time_map, renamings[j].file)
                   => renamings[i].time < renamings[j].time

\* what dump_renamings may return for the plan it is given: the same files
\* with the same target names, ascending by target name
Dumped(plan, returned) ==
    /\ Len(returned) = Len(plan)
    /\ {returned[i][1] : i \in 1..Len(returned)}
           = {plan[i][1] : i \in 1..Len(plan)}
    /\ \A i \in 1..Len(returned) :
           \E j \in 1..Len(plan) :
               plan[j][1] = returned[i][1] /\ plan[j][2][1] = returned[i][2]
    /\ \A i, j \in 1..Len(returned) :
           i < j => StrLeq(returned[i][2], returned[j][2])

\* C7: dump_renamings returns the files of the plan with the target names the
\* plan gave them, in ascending order of target name.
C7_DumpKeepsPlan ==
    [][/\ DumpImages => Dumped(image_renamings, image_renamings')
       /\ DumpVideos => Dumped(video_renamings, video_renamings')]_vars

\* C7 happens: the reporter returned the images in another order than the plan
C7_Witness ==
    /\ pc = "dump_videos"
    /\ Len(image_renamings) >= 2
    /\ \E i \in 1..Len(image_renamings) :
           image_renamings[i][1] # calculate_renamings(images_info_map)[i][1]

\* the instant the filesystem gives for the file f: its creation time where
\* the platform has one, else its last-modified time
FilesystemTime(f) ==
    IF platform \in {"Windows", "Darwin"} THEN f.created ELSE f.modified

\* the capture-time field of f is there
HasField(f) == EXIF_DATE_TIME_ORIGINAL \in DOMAIN f.tags

\* the capture-time field of f is there and well formed
WellFormed(f) == HasField(f) /\ Parseable(f.tags[EXIF_DATE_TIME_ORIGINAL])

\* C5: an image with a well-formed capture-time field resolves to the parsed
\* field, one without the field to the filesystem time, and one with a
\* malformed field to no instant at all: the run ends with the error.
C5_ResolverOutcomes ==
    renames = <<>> =>
        /\ \A i \in 1..Len(images_info_map) :
               LET f == disk[images_info_map[i][1]]
                   time == images_info_map[i][2]
               IN  /\ images_info_map[i][1] = images_files[i]
                   /\ HasField(f) => WellFormed(f)
                   /\ WellFormed(f) =>
                          time = Strptime(f.tags[EXIF_DATE_TIME_ORIGINAL])
                   /\ ~HasField(f) => time = FilesystemTime(f)
        /\ file_counter > Len(images_info_map) + Len(video_files_map) =>
               /\ pc = "error"
               /\ error = "ValueError"
        /\ error = "ValueError" =>
               LET f == disk[images_files[Len(images_info_map) + 1]]
               IN  HasField(f) /\ ~WellFormed(f)

\* C5 happens: one image resolved to its embedded instant although the
\* filesystem says otherwise, and the next one's field is malformed
C5_Witness ==
    /\ pc = "error"
    /\ error = "ValueError"
    /\ \E i \in 1..Len(images_info_map) :
           LET f == disk[images_info_map[i][1]]
           IN  /\ WellFormed(f)
               /\ images_info_map[i][2] # FilesystemTime(f)

\* every file is resolved and both plans are computed and reported
Reported ==
    /\ Len(images_info_map) = Len(images_files)
    /\ Len(video_files_map) = Len(video_files)
    /\ Len(image_renamings) = Len(images_files)
    /\ Len(video_renamings) = Len(video_files)
    /\ Len(stdout) = Len(images_files) + Len(video_files)

\* C6: a rename is issued only after every file is resolved, both plans are
\* computed and reported and the prompt is answered yes; a run that ends in
\* a resolution error or is declined issues no rename.
C6_NoRenameBeforeConfirmation ==
    /\ renames # <<>> => (Reported /\ confirmed = "yes")
    /\ error = "ValueError" => renames = <<>>
    /\ confirmed = "no" => (renames = <<>> /\ Reported)

\* C6 happens: a confirmed run that renamed an image and a video
C6_Witness ==
    /\ pc = "done"
    /\ confirmed = "yes"
    /\ Len(renames) >= 2
    /\ Len(video_renamings) >= 1

\* C10: after a confirmed plan is executed, every file of the batch is in
\* the directory under its planned target name, none overwritten or lost.
C10_NoFileLost ==
    (pc = "done" /\ confirmed = "yes") =>
        /\ \A e \in Items(image_renamings) \cup Items(video_renamings) :
               e[2] \in DOMAIN disk /\ disk[e[2]].content = e[1]
        /\ \A i \in 1..Len(renames) :
               \A j \in (i + 1)..Len(renames) : renames[i][2] # renames[j][1]

====
